---- MODULE Spec2Model ----
(***************************************************************************)
(* Authorization and identity reconciliation core of adaMedical_Backend:   *)
(* wildcard permission expansion, the permission_required / role_required  *)
(* gates, the account store with its uniqueness constraints, and the       *)
(* Google SSO find-or-create / link / reactivate sequence.                 *)
(*                                                                         *)
(* Python strings that the code takes apart (permission patterns) are      *)
(* sequences of tokens, the dot being a token of its own, so that          *)
(* startswith / endswith / split are computed and not assumed.             *)
(***************************************************************************)
EXTENDS Integers, Sequences, FiniteSets, TLC

\* ------------------------------------------------------------------------
\* Bounds of the model
\* ------------------------------------------------------------------------
MaxPatterns == 2


\* ------------------------------------------------------------------------
\* String helpers (str.startswith, str.endswith, str.split('.'))
\* ------------------------------------------------------------------------
Dot == "."

Star == "*"

startswith(s, prefix) ==
    /\ Len(prefix) <= Len(s)
    /\ SubSeq(s, 1, Len(prefix)) = prefix

endswith(s, suffix) ==
    /\ Len(suffix) <= Len(s)
    /\ SubSeq(s, Len(s) - Len(suffix) + 1, Len(s)) = suffix

\* s.split('.'): the pieces between the dots, in order
RECURSIVE split(_)
split(s) ==
    IF \A i \in 1..Len(s) : s[i] # Dot
    THEN <<s>>
    ELSE LET i == CHOOSE k \in 1..Len(s) :
                      s[k] = Dot /\ \A j \in 1..(k - 1) : s[j] # Dot
         IN  <<SubSeq(s, 1, i - 1)>> \o split(SubSeq(s, i + 1, Len(s)))

\* f'{resource}.{action}'
Perm(resource, action) == <<resource, Dot, action>>

\* ------------------------------------------------------------------------
\* Permission.expand_permissions
\* ------------------------------------------------------------------------
KnownResources ==
    <<"users", "products", "inventory", "orders",
      "invoices", "contacts", "organizations", "payments">>

KnownActions == <<"view", "edit", "create", "delete">>

all_permissions ==
    { Perm(KnownResources[i], KnownActions[j]) :
        i \in 1..Len(KnownResources), j \in 1..Len(KnownActions) }

\* a plausible slip: the literal branch validates against the known universe
expand_pattern_validating(pattern) ==
    IF pattern = <<Star, Dot, Star>>
    THEN all_permissions
    ELSE IF endswith(pattern, <<Dot, Star>>)
    THEN LET resource == split(pattern)[1]
         IN  { p \in all_permissions : startswith(p, resource \o <<Dot>>) }
    ELSE IF startswith(pattern, <<Star, Dot>>)
    THEN LET action == split(pattern)[2]
         IN  { p \in all_permissions : endswith(p, <<Dot>> \o action) }
    ELSE { pattern } \cap all_permissions

\* a plausible slip: the '*.action' branch is missing
expand_pattern_no_action_wildcard(pattern) ==
    IF pattern = <<Star, Dot, Star>>
    THEN all_permissions
    ELSE IF endswith(pattern, <<Dot, Star>>)
    THEN LET resource == split(pattern)[1]
         IN  { p \in all_permissions : startswith(p, resource \o <<Dot>>) }
    ELSE { pattern }

\* a plausible slip: a literal is recorded as the wildcard pattern of its
\* resource instead of the permission itself
expand_pattern_literal_as_pattern(pattern) ==
    IF pattern = <<Star, Dot, Star>>
    THEN all_permissions
    ELSE IF endswith(pattern, <<Dot, Star>>)
    THEN LET resource == split(pattern)[1]
         IN  { p \in all_permissions : startswith(p, resource \o <<Dot>>) }
    ELSE IF startswith(pattern, <<Star, Dot>>)
    THEN LET action == split(pattern)[2]
         IN  { p \in all_permissions : endswith(p, <<Dot>> \o action) }
    ELSE { split(pattern)[1] \o <<Dot, Star>> }

\* the body of the loop: what one pattern adds to `expanded`
expand_pattern(pattern) ==
    IF pattern = <<Star, Dot, Star>>
    THEN all_permissions
    ELSE IF endswith(pattern, <<Dot, Star>>)
    THEN LET resource == split(pattern)[1]
         IN  { p \in all_permissions : startswith(p, resource \o <<Dot>>) }
    ELSE IF startswith(pattern, <<Star, Dot>>)
    THEN LET action == split(pattern)[2]
         IN  { p \in all_permissions : endswith(p, <<Dot>> \o action) }
    ELSE { pattern }

RECURSIVE expand_permissions(_)
expand_permissions(permission_patterns) ==
    IF permission_patterns = <<>>
    THEN {}
    ELSE expand_pattern(Head(permission_patterns))
            \cup expand_permissions(Tail(permission_patterns))

\* ------------------------------------------------------------------------
\* The account store: tables `users` and `roles` with their constraints
\* ------------------------------------------------------------------------
\* Python None in a string column or argument
None == "None"

\* users.role_id IS NULL
NoRole == 0

\* `not x` for a string or None
Falsy(x) == x \in {None, ""}

DEFAULT_CURRENCY == "SGD"

DEFAULT_USER_ROLE == "User"

\* User.query...first() that found no row
NoUser ==
    [id |-> 0, name |-> None, email |-> None, password_hash |-> None,
     google_sso_id |-> None, role_id |-> NoRole, is_active |-> FALSE,
     currency_context |-> None]

\* a plausible slip: the columns are declared without unique=True
UsersConstraintsNotUnique(us, rs) ==
    \A u \in us : u.role_id = NoRole \/ \E r \in rs : r.id = u.role_id

\* primary key, unique email, unique google_sso_id (NULLs never collide),
\* role_id references roles.id
UsersConstraints(us, rs) ==
    /\ \A u, v \in us :
          u # v => /\ u.id # v.id
                   /\ u.email # v.email
                   /\ (u.google_sso_id # None => u.google_sso_id # v.google_sso_id)
    /\ \A u \in us : u.role_id = NoRole \/ \E r \in rs : r.id = u.role_id

\* primary key and unique name
RolesConstraints(rs) ==
    \A r, q \in rs : r # q => r.id # q.id /\ r.name # q.name

\* User.query.filter_by(email=email).first()
get_by_email(db, email) ==
    IF \E u \in db.users : u.email = email
    THEN CHOOSE u \in db.users : u.email = email
    ELSE NoUser

\* User.query.filter_by(google_sso_id=google_id).first()
get_by_google_sso_id(db, google_id) ==
    IF \E u \in db.users : u.google_sso_id = google_id
    THEN CHOOSE u \in db.users : u.google_sso_id = google_id
    ELSE NoUser

\* User.query.get(user_id)
get_user(db, user_id) ==
    IF \E u \in db.users : u.id = user_id
    THEN CHOOSE u \in db.users : u.id = user_id
    ELSE NoUser

NoRoleRow == [id |-> NoRole, name |-> None]

\* Role.query.filter_by(name=name).first()
get_role_by_name(db, name) ==
    IF \E r \in db.roles : r.name = name
    THEN CHOOSE r \in db.roles : r.name = name
    ELSE NoRoleRow

\* Role.query.get(role_id)
get_role(db, role_id) ==
    IF \E r \in db.roles : r.id = role_id
    THEN CHOOSE r \in db.roles : r.id = role_id
    ELSE NoRoleRow

\* current_user.role.name, None when the user has no role
role_name_of(db, user) == get_role(db, user.role_id).name

\* db.session.add(user); db.session.commit(): the row gets the next id, or
\* the commit raises and is rolled back
commit_insert_user(db, user) ==
    LET row == [user EXCEPT !.id = db.user_seq + 1]
        us  == db.users \cup {row}
    IN  IF UsersConstraints(us, db.roles)
        THEN [ok |-> TRUE, row |-> row,
              db |-> [db EXCEPT !.users = us, !.user_seq = db.user_seq + 1]]
        ELSE [ok |-> FALSE, row |-> NoUser, db |-> db]

\* db.session.commit() with one dirty User: UPDATE users SET <dirty columns>
\* WHERE id = obj.id; raises when no row matches or a constraint fails
commit_update_user(db, obj, dirty) ==
    LET old == get_user(db, obj.id)
        row == [f \in DOMAIN old |-> IF f \in dirty THEN obj[f] ELSE old[f]]
        us  == (db.users \ {old}) \cup {row}
    IN  IF old # NoUser /\ UsersConstraints(us, db.roles)
        THEN [ok |-> TRUE, row |-> row, db |-> [db EXCEPT !.users = us]]
        ELSE [ok |-> FALSE, row |-> NoUser, db |-> db]

\* db.session.add(role); db.session.commit()
commit_insert_role(db, name) ==
    LET row == [id |-> db.role_seq + 1, name |-> name]
        rs  == db.roles \cup {row}
    IN  IF RolesConstraints(rs)
        THEN [ok |-> TRUE, row |-> row,
              db |-> [db EXCEPT !.roles = rs, !.role_seq = db.role_seq + 1]]
        ELSE [ok |-> FALSE, row |-> NoRoleRow, db |-> db]

\* ------------------------------------------------------------------------
\* Google SSO reconciliation: GoogleCallback.get (impl = "route") and
\* AuthService.process_google_auth (impl = "service"), one operator per
\* stretch of code between two round trips to the database.
\* A frame `c` holds the locals of one call; `db` is the committed store.
\* ------------------------------------------------------------------------
NewCall(impl, email, google_id, name) ==
    [pc |-> "find_by_email", impl |-> impl,
     email |-> email, google_id |-> google_id, name |-> name,
     user |-> NoUser,          \* the ORM object `user`
     dirty |-> {},             \* its attributes changed and not yet flushed
     expired |-> FALSE,        \* attributes expired by the last commit
     default_role |-> NoRole,  \* id of default_role, NoRole when None
     found_by |-> "none",      \* "email", "google_sso_id" or "created"
     other_by_sub |-> 0,       \* history: id of another account that held
                               \* the assertion's subject id at lookup time
     insert_raised |-> FALSE,  \* history: the commit of the new user raised
     writes |-> {},            \* history: commits of the call that went
                               \* through: "role", "user", "update"
     written |-> {},           \* history: columns its UPDATE statements set
     status |-> 0]             \* HTTP status / error class of the outcome

Finish(db, c, status) ==
    [db |-> db, c |-> [c EXCEPT !.pc = "done", !.status = status]]

\* the object as the next attribute access sees it: an expired object is
\* re-read from the store
Refreshed(db, c) ==
    IF c.expired THEN get_user(db, c.user.id) ELSE c.user

\* a plausible slip: the email is required only when the subject id is absent
cb_find_by_email_unchecked(db, c) ==
    IF Falsy(c.email) /\ Falsy(c.google_id)
    THEN Finish(db, c, 400)
    ELSE LET user == get_by_email(db, c.email)
             other == IF Falsy(c.google_id)
                      THEN NoUser
                      ELSE get_by_google_sso_id(db, c.google_id)
         IN  IF user # NoUser
             THEN [db |-> db,
                   c |-> [c EXCEPT !.user = user, !.found_by = "email",
                                   !.other_by_sub =
                                       IF other.id # user.id THEN other.id ELSE 0,
                                   !.pc = "update"]]
             ELSE IF ~Falsy(c.google_id)
             THEN [db |-> db, c |-> [c EXCEPT !.pc = "find_by_sso"]]
             ELSE [db |-> db, c |-> [c EXCEPT !.pc = "default_role"]]

\* email check, then the lookup by email
cb_find_by_email(db, c) ==
    IF Falsy(c.email)
    THEN Finish(db, c, 400)
    ELSE LET user == get_by_email(db, c.email)
             other == IF Falsy(c.google_id)
                      THEN NoUser
                      ELSE get_by_google_sso_id(db, c.google_id)
         IN  IF user # NoUser
             THEN [db |-> db,
                   c |-> [c EXCEPT !.user = user, !.found_by = "email",
                                   !.other_by_sub =
                                       IF other.id # user.id THEN other.id ELSE 0,
                                   !.pc = "update"]]
             ELSE IF ~Falsy(c.google_id)
             THEN [db |-> db, c |-> [c EXCEPT !.pc = "find_by_sso"]]
             ELSE [db |-> db, c |-> [c EXCEPT !.pc = "default_role"]]

\* the fallback lookup by provider subject id
cb_find_by_sso(db, c) ==
    LET user == get_by_google_sso_id(db, c.google_id)
    IN  IF user = NoUser
        THEN [db |-> db, c |-> [c EXCEPT !.pc = "default_role"]]
        ELSE IF c.impl = "route" /\ user.email # c.email
        THEN \* routes.py: user.email = email, updated_fields left alone
             [db |-> db,
              c |-> [c EXCEPT !.user = [user EXCEPT !.email = c.email],
                              !.dirty = {"email"},
                              !.found_by = "google_sso_id", !.pc = "update"]]
        ELSE [db |-> db,
              c |-> [c EXCEPT !.user = user,
                              !.found_by = "google_sso_id", !.pc = "update"]]

\* get_or_create_default_role: the query
cb_default_role(db, c) ==
    LET role == get_role_by_name(db, DEFAULT_USER_ROLE)
    IN  IF role # NoRoleRow
        THEN [db |-> db,
              c |-> [c EXCEPT !.default_role = role.id, !.pc = "insert_user"]]
        ELSE [db |-> db, c |-> [c EXCEPT !.pc = "insert_role"]]

\* get_or_create_default_role: the insert; None when the commit raises
cb_insert_role(db, c) ==
    LET r == commit_insert_role(db, DEFAULT_USER_ROLE)
    IN  [db |-> r.db,
         c |-> [c EXCEPT !.default_role = IF r.ok THEN r.row.id ELSE NoRole,
                         !.writes = IF r.ok THEN c.writes \cup {"role"}
                                    ELSE c.writes,
                         !.pc = "insert_user"]]

\* a plausible slip: the new account is not given the default role
cb_insert_user_roleless(db, c) ==
    LET user == [id |-> 0, name |-> c.name, email |-> c.email,
                 password_hash |-> None, google_sso_id |-> c.google_id,
                 role_id |-> NoRole, is_active |-> TRUE,
                 currency_context |-> DEFAULT_CURRENCY]
        r == commit_insert_user(db, user)
    IN  IF r.ok
        THEN [db |-> r.db,
              c |-> [c EXCEPT !.user = r.row, !.expired = TRUE,
                              !.found_by = "created",
                              !.writes = c.writes \cup {"user"},
                              !.pc = IF c.impl = "route" THEN "update" ELSE "final"]]
        ELSE Finish(db, [c EXCEPT !.insert_raised = TRUE], 500)

\* a plausible slip: without a default role the account is not created
cb_insert_user_needs_role(db, c) ==
    LET user == [id |-> 0, name |-> c.name, email |-> c.email,
                 password_hash |-> None, google_sso_id |-> c.google_id,
                 role_id |-> c.default_role, is_active |-> TRUE,
                 currency_context |-> DEFAULT_CURRENCY]
        r == commit_insert_user(db, user)
    IN  IF c.default_role = NoRole
        THEN Finish(db, c, 500)
        ELSE IF r.ok
        THEN [db |-> r.db,
              c |-> [c EXCEPT !.user = r.row, !.expired = TRUE,
                              !.found_by = "created",
                              !.writes = c.writes \cup {"user"},
                              !.pc = IF c.impl = "route" THEN "update" ELSE "final"]]
        ELSE Finish(db, [c EXCEPT !.insert_raised = TRUE], 500)

\* User(...), user.role = default_role, db.session.add, db.session.commit
cb_insert_user(db, c) ==
    LET user == [id |-> 0, name |-> c.name, email |-> c.email,
                 password_hash |-> None, google_sso_id |-> c.google_id,
                 role_id |-> c.default_role, is_active |-> TRUE,
                 currency_context |-> DEFAULT_CURRENCY]
        r == commit_insert_user(db, user)
    IN  IF r.ok
        THEN [db |-> r.db,
              c |-> [c EXCEPT !.user = r.row, !.expired = TRUE,
                              !.found_by = "created",
                              !.writes = c.writes \cup {"user"},
                              !.pc = IF c.impl = "route" THEN "update" ELSE "final"]]
        ELSE Finish(db, [c EXCEPT !.insert_raised = TRUE], 500)

\* a plausible slip: linking also takes the display name from the assertion
cb_update_takes_name(db, c) ==
    LET cur == Refreshed(db, c)
        chg == c.impl = "service" /\ ~Falsy(cur.google_sso_id) /\ cur.email # c.email
        u1  == IF chg THEN [cur EXCEPT !.email = c.email] ELSE cur
        lnk == Falsy(u1.google_sso_id) /\ ~Falsy(c.google_id)
        u2  == IF lnk THEN [u1 EXCEPT !.google_sso_id = c.google_id, !.name = c.name]
               ELSE u1
        act == ~u2.is_active
        u3  == IF act THEN [u2 EXCEPT !.is_active = TRUE] ELSE u2
        dirty == c.dirty \cup (IF chg THEN {"email"} ELSE {})
                         \cup (IF lnk THEN {"google_sso_id", "name"} ELSE {})
                         \cup (IF act THEN {"is_active"} ELSE {})
    IN  IF cur = NoUser
        THEN Finish(db, c, 500)   \* the row was deleted under the object
        ELSE [db |-> db,
              c |-> [c EXCEPT !.user = u3, !.dirty = dirty, !.expired = FALSE,
                              !.pc = IF chg \/ lnk \/ act
                                     THEN "commit_update" ELSE "final"]]

\* a plausible slip: an inactive account is left inactive
cb_update_no_reactivation(db, c) ==
    LET cur == Refreshed(db, c)
        chg == c.impl = "service" /\ ~Falsy(cur.google_sso_id) /\ cur.email # c.email
        u1  == IF chg THEN [cur EXCEPT !.email = c.email] ELSE cur
        lnk == Falsy(u1.google_sso_id) /\ ~Falsy(c.google_id)
        u2  == IF lnk THEN [u1 EXCEPT !.google_sso_id = c.google_id] ELSE u1
        act == FALSE
        u3  == IF act THEN [u2 EXCEPT !.is_active = TRUE] ELSE u2
        dirty == c.dirty \cup (IF chg THEN {"email"} ELSE {})
                         \cup (IF lnk THEN {"google_sso_id"} ELSE {})
                         \cup (IF act THEN {"is_active"} ELSE {})
    IN  IF cur = NoUser
        THEN Finish(db, c, 500)   \* the row was deleted under the object
        ELSE [db |-> db,
              c |-> [c EXCEPT !.user = u3, !.dirty = dirty, !.expired = FALSE,
                              !.pc = IF chg \/ lnk \/ act
                                     THEN "commit_update" ELSE "final"]]

\* a plausible slip: the commit is not conditional on `updated`
cb_update_always_commits(db, c) ==
    LET cur == Refreshed(db, c)
        chg == c.impl = "service" /\ ~Falsy(cur.google_sso_id) /\ cur.email # c.email
        u1  == IF chg THEN [cur EXCEPT !.email = c.email] ELSE cur
        lnk == Falsy(u1.google_sso_id) /\ ~Falsy(c.google_id)
        u2  == IF lnk THEN [u1 EXCEPT !.google_sso_id = c.google_id] ELSE u1
        act == ~u2.is_active
        u3  == IF act THEN [u2 EXCEPT !.is_active = TRUE] ELSE u2
        dirty == c.dirty \cup (IF chg THEN {"email"} ELSE {})
                         \cup (IF lnk THEN {"google_sso_id"} ELSE {})
                         \cup (IF act THEN {"is_active"} ELSE {})
    IN  IF cur = NoUser
        THEN Finish(db, c, 500)   \* the row was deleted under the object
        ELSE [db |-> db,
              c |-> [c EXCEPT !.user = u3, !.dirty = dirty, !.expired = FALSE,
                              !.pc = "commit_update"]]

\* the in-memory changes to a found (or, in the route, just created) user
\*   route:   link the subject id, reactivate; the email change made after the
\*            lookup by subject id does not set updated_fields
\*   service: _update_user_sso_data, where the email change sets `updated`
cb_update(db, c) ==
    LET cur == Refreshed(db, c)
        chg == c.impl = "service" /\ ~Falsy(cur.google_sso_id) /\ cur.email # c.email
        u1  == IF chg THEN [cur EXCEPT !.email = c.email] ELSE cur
        lnk == Falsy(u1.google_sso_id) /\ ~Falsy(c.google_id)
        u2  == IF lnk THEN [u1 EXCEPT !.google_sso_id = c.google_id] ELSE u1
        act == ~u2.is_active
        u3  == IF act THEN [u2 EXCEPT !.is_active = TRUE] ELSE u2
        dirty == c.dirty \cup (IF chg THEN {"email"} ELSE {})
                         \cup (IF lnk THEN {"google_sso_id"} ELSE {})
                         \cup (IF act THEN {"is_active"} ELSE {})
    IN  IF cur = NoUser
        THEN Finish(db, c, 500)   \* the row was deleted under the object
        ELSE [db |-> db,
              c |-> [c EXCEPT !.user = u3, !.dirty = dirty, !.expired = FALSE,
                              !.pc = IF chg \/ lnk \/ act
                                     THEN "commit_update" ELSE "final"]]

\* if updated: db.session.commit(), on an exception rollback and 500 / raise
cb_commit_update(db, c) ==
    LET r == commit_update_user(db, c.user, c.dirty)
    IN  IF r.ok
        THEN [db |-> r.db,
              c |-> [c EXCEPT !.user = r.row, !.dirty = {}, !.expired = TRUE,
                              !.writes = c.writes \cup {"update"},
                              !.written = c.written \cup c.dirty,
                              !.pc = "final"]]
        ELSE Finish(db, c, 500)

\* a plausible slip: the final activation check is left out
cb_final_unchecked(db, c) ==
    LET cur == Refreshed(db, c)
    IN  IF cur = NoUser
        THEN Finish(db, c, 500)
        ELSE Finish([db EXCEPT !.tokens = db.tokens \cup {cur.id}],
                    [c EXCEPT !.user = cur, !.expired = FALSE], 200)

\* the final activation check; the route then issues the tokens
cb_final(db, c) ==
    LET cur == Refreshed(db, c)
    IN  IF cur = NoUser
        THEN Finish(db, c, 500)
        ELSE IF ~cur.is_active
        THEN Finish(db, [c EXCEPT !.user = cur, !.expired = FALSE], 403)
        ELSE Finish([db EXCEPT !.tokens = db.tokens \cup {cur.id}],
                    [c EXCEPT !.user = cur, !.expired = FALSE], 200)

\* one stretch of the call: from one round trip to the database to the next
Step(db, c) ==
    LET found(r) == IF r.c.pc = "update" THEN cb_update(r.db, r.c) ELSE r
    IN  CASE c.pc = "find_by_email" -> found(cb_find_by_email(db, c))
          [] c.pc = "find_by_sso"   -> found(cb_find_by_sso(db, c))
          [] c.pc = "default_role"  -> cb_default_role(db, c)
          [] c.pc = "insert_role"   -> cb_insert_role(db, c)
          [] c.pc = "insert_user"   -> cb_insert_user(db, c)
          [] c.pc = "update"        -> cb_update(db, c)
          [] c.pc = "commit_update" -> cb_commit_update(db, c)
          [] c.pc = "final"         -> cb_final(db, c)
          [] OTHER                  -> [db |-> db, c |-> c]

\* a whole call, run without another request in between
RECURSIVE RunFrom(_)
RunFrom(st) ==
    IF st.c.pc = "done" THEN st ELSE RunFrom(Step(st.db, st.c))

Run(db, c) == RunFrom([db |-> db, c |-> c])

\* ------------------------------------------------------------------------
\* The role table and the gates
\* ------------------------------------------------------------------------
\* Permission.ROLE_PERMISSIONS as written in the source
ROLE_PERMISSIONS ==
    ( "Admin" :> << <<"users", Dot, Star>>, <<"products", Dot, Star>>,
                    <<"inventory", Dot, Star>>, <<"orders", Dot, Star>>,
                    <<"invoices", Dot, Star>>, <<"contacts", Dot, Star>>,
                    <<"organizations", Dot, Star>> >> )
    @@ ( "Sales" :> << <<Star, Dot, "view">>, <<"orders", Dot, Star>>,
                       <<"contacts", Dot, Star>>, <<"organizations", Dot, Star>> >> )
    @@ ( "Operations" :> << <<Star, Dot, "view">>, <<"inventory", Dot, Star>>,
                            Perm("products", "view"), Perm("orders", "view"),
                            Perm("orders", "edit") >> )
    @@ ( "Accounts" :> << <<Star, Dot, "view">>, <<"invoices", Dot, Star>>,
                          <<"payments", Dot, Star>> >> )

\* a plausible slip: a role without an entry gets the read-only pattern
get_role_permissions_read_only(table, role_name) ==
    IF role_name \notin DOMAIN table
    THEN expand_permissions(<< <<Star, Dot, "view">> >>)
    ELSE expand_permissions(table[role_name])

\* Permission.get_role_permissions, `table` being cls.ROLE_PERMISSIONS
get_role_permissions(table, role_name) ==
    IF role_name \notin DOMAIN table
    THEN {}
    ELSE expand_permissions(table[role_name])

\* a plausible slip: the admin test compares case-insensitively
is_admin_name_lower(role_name) == role_name \in {"Admin", "admin", "ADMIN"}

\* a plausible slip: the Admin special case is left out
is_admin_name_never(role_name) == FALSE

\* current_user.role.name == 'Admin'
is_admin_name(role_name) == role_name = "Admin"

\* a plausible slip: a role without a table entry falls back to Sales
permission_required_open(db, table, user_id, permission) ==
    LET current_user == get_user(db, user_id)
        role_name == role_name_of(db, current_user)
    IN  IF current_user = NoUser THEN [status |-> 401, message |-> "User not found"]
        ELSE IF ~current_user.is_active
        THEN [status |-> 403, message |-> "Account is inactive"]
        ELSE IF role_name = None
        THEN [status |-> 403, message |-> "User has no assigned role"]
        ELSE IF is_admin_name(role_name)
        THEN [status |-> 200, message |-> "fn"]
        ELSE IF permission \notin
                  get_role_permissions(table,
                      IF role_name \in DOMAIN table THEN role_name ELSE "Sales")
        THEN [status |-> 403, message |-> "Missing required permission"]
        ELSE [status |-> 200, message |-> "fn"]

\* a plausible slip: the Admin short-circuit is tested before the
\* activation flag
permission_required_admin_first(db, table, user_id, permission) ==
    LET current_user == get_user(db, user_id)
        role_name == role_name_of(db, current_user)
    IN  IF current_user = NoUser THEN [status |-> 401, message |-> "User not found"]
        ELSE IF role_name # None /\ is_admin_name(role_name)
        THEN [status |-> 200, message |-> "fn"]
        ELSE IF ~current_user.is_active
        THEN [status |-> 403, message |-> "Account is inactive"]
        ELSE IF role_name = None
        THEN [status |-> 403, message |-> "User has no assigned role"]
        ELSE IF permission \notin get_role_permissions(table, role_name)
        THEN [status |-> 403, message |-> "Missing required permission"]
        ELSE [status |-> 200, message |-> "fn"]

\* the wrapper of permission_required(permission); status 200 with message
\* "fn" stands for `return fn(*args, **kwargs)`
permission_required(db, table, user_id, permission) ==
    LET current_user == get_user(db, user_id)
        role_name == role_name_of(db, current_user)
    IN  IF current_user = NoUser THEN [status |-> 401, message |-> "User not found"]
        ELSE IF ~current_user.is_active
        THEN [status |-> 403, message |-> "Account is inactive"]
        ELSE IF role_name = None
        THEN [status |-> 403, message |-> "User has no assigned role"]
        ELSE IF is_admin_name(role_name)
        THEN [status |-> 200, message |-> "fn"]
        ELSE IF permission \notin get_role_permissions(table, role_name)
        THEN [status |-> 403, message |-> "Missing required permission"]
        ELSE [status |-> 200, message |-> "fn"]

\* a plausible slip: the `not current_user.role` test is left out
role_required_no_role_test(db, user_id, role_names) ==
    LET current_user == get_user(db, user_id)
        role_name == role_name_of(db, current_user)
    IN  IF current_user = NoUser
           \/ (role_name # None /\ role_name \notin role_names)
        THEN [status |-> 403, message |-> "Insufficient permissions"]
        ELSE [status |-> 200, message |-> "fn"]

\* the wrapper of role_required(roles)
role_required(db, user_id, role_names) ==
    LET current_user == get_user(db, user_id)
        role_name == role_name_of(db, current_user)
    IN  IF current_user = NoUser \/ role_name = None \/ role_name \notin role_names
        THEN [status |-> 403, message |-> "Insufficient permissions"]
        ELSE [status |-> 200, message |-> "fn"]

\* admin_required = role_required(['Admin'])
admin_required(db, user_id) == role_required(db, user_id, {"Admin"})

\* ------------------------------------------------------------------------
\* Password login, user registration, admin user update, role creation
\* ------------------------------------------------------------------------
\* bcrypt taken as a capability: a hash that verifies exactly its password
hash_password(password) ==
    IF password = "pw-1" THEN "$2b$pw-1" ELSE "$2b$other"

verify_password(stored_hash, password) ==
    IF Falsy(stored_hash) THEN FALSE ELSE stored_hash = hash_password(password)

Has(data, key) == key \in DOMAIN data

Get(data, key, default) == IF key \in DOMAIN data THEN data[key] ELSE default

\* UserLogin.post
UserLogin_post(db, email, password) ==
    LET user == get_by_email(db, email)
    IN  IF user # NoUser /\ ~Falsy(user.password_hash)
           /\ verify_password(user.password_hash, password)
        THEN IF ~user.is_active
             THEN [db |-> db, status |-> 403]
             ELSE [db |-> [db EXCEPT !.tokens = db.tokens \cup {user.id}],
                   status |-> 200]
        ELSE [db |-> db, status |-> 401]

\* UserService.create_user, and the body of UserRegister.post (which always
\* has a password, the registration schema requiring it)
create_user(db, data) ==
    IF get_by_email(db, data.email) # NoUser
    THEN [db |-> db, status |-> 409]
    ELSE LET role_id == Get(data, "role_id", NoRole)
             user == [id |-> 0, name |-> data.name, email |-> data.email,
                      password_hash |-> IF Has(data, "password")
                                        THEN hash_password(data.password)
                                        ELSE None,
                      google_sso_id |-> None, role_id |-> role_id,
                      is_active |-> Get(data, "is_active", TRUE),
                      currency_context |->
                          Get(data, "currency_context", DEFAULT_CURRENCY)]
             r == commit_insert_user(db, user)
         IN  IF role_id # NoRole /\ get_role(db, role_id) = NoRoleRow
             THEN [db |-> db, status |-> 404]
             ELSE IF r.ok THEN [db |-> r.db, status |-> 201]
             ELSE [db |-> db, status |-> 500]

\* UserService.update_user, and the body of UserResource.put
update_user(db, user_id, data) ==
    LET user == get_user(db, user_id)
        u1 == [user EXCEPT !.name = Get(data, "name", user.name)]
        new_email == Get(data, "email", user.email)
        taken == \E o \in db.users : o.email = new_email /\ o.id # user_id
        u2 == [u1 EXCEPT !.email = new_email]
        u3 == [u2 EXCEPT !.is_active = Get(data, "is_active", user.is_active),
                         !.currency_context =
                             Get(data, "currency_context", user.currency_context)]
        u4 == [u3 EXCEPT !.role_id = Get(data, "role_id", user.role_id)]
        u5 == IF Has(data, "password") /\ ~Falsy(data.password)
              THEN [u4 EXCEPT !.password_hash = hash_password(data.password)]
              ELSE u4
        r == commit_update_user(db, u5, DOMAIN u5)
    IN  IF user = NoUser THEN [db |-> db, status |-> 404]
        ELSE IF new_email # user.email /\ taken THEN [db |-> db, status |-> 409]
        ELSE IF Has(data, "role_id") /\ data.role_id # NoRole
                /\ get_role(db, data.role_id) = NoRoleRow
        THEN [db |-> db, status |-> 404]
        ELSE IF r.ok THEN [db |-> r.db, status |-> 200]
        ELSE [db |-> db, status |-> 500]

\* RoleService.create_role, and the body of RoleList.post
create_role(db, name) ==
    IF get_role_by_name(db, name) # NoRoleRow
    THEN [db |-> db, status |-> 409]
    ELSE LET r == commit_insert_role(db, name)
         IN  IF r.ok THEN [db |-> r.db, status |-> 201]
             ELSE [db |-> db, status |-> 500]

\* str.lower() on the role names that occur
lower(name) ==
    CASE name \in {"Admin", "admin", "ADMIN"} -> "admin"
      [] name \in {"User", "user"} -> "user"
      [] name = "Administrator" -> "administrator"
      [] name = "Admininstrator" -> "admininstrator"
      [] name = "Sales" -> "sales"
      [] name = "Old" -> "old"
      [] OTHER -> name

\* RoleService.update_role, and the body of RoleResource.put, for a request
\* that carries a non-empty name
update_role(db, role_id, name) ==
    LET role == get_role(db, role_id)
        rs == (db.roles \ {role}) \cup { [role EXCEPT !.name = name] }
    IN  IF role = NoRoleRow THEN [db |-> db, status |-> 404]
        ELSE IF name # role.name /\ get_role_by_name(db, name) # NoRoleRow
        THEN [db |-> db, status |-> 409]
        ELSE IF RolesConstraints(rs)
        THEN [db |-> [db EXCEPT !.roles = rs], status |-> 200]
        ELSE [db |-> db, status |-> 500]

\* a plausible slip: the `role.users.first()` test is left out, and the
\* session detaches the role's users when it deletes the role
delete_role_unchecked(db, role_id) ==
    LET role == get_role(db, role_id)
        rs == db.roles \ {role}
        us == { IF u.role_id = role_id THEN [u EXCEPT !.role_id = NoRole] ELSE u :
                  u \in db.users }
    IN  IF role = NoRoleRow THEN [db |-> db, status |-> 404]
        ELSE IF lower(role.name) = "admin" THEN [db |-> db, status |-> 403]
        ELSE IF lower(role.name) = lower(DEFAULT_USER_ROLE)
        THEN [db |-> db, status |-> 403]
        ELSE [db |-> [db EXCEPT !.roles = rs, !.users = us], status |-> 204]

\* RoleService.delete_role, and the body of RoleResource.delete
delete_role(db, role_id) ==
    LET role == get_role(db, role_id)
        rs == db.roles \ {role}
    IN  IF role = NoRoleRow THEN [db |-> db, status |-> 404]
        ELSE IF lower(role.name) = "admin" THEN [db |-> db, status |-> 403]
        ELSE IF lower(role.name) = lower(DEFAULT_USER_ROLE)
        THEN [db |-> db, status |-> 403]
        ELSE IF \E u \in db.users : u.role_id = role_id
        THEN [db |-> db, status |-> 400]
        ELSE IF UsersConstraints(db.users, rs)
        THEN [db |-> [db EXCEPT !.roles = rs], status |-> 204]
        ELSE [db |-> db, status |-> 500]

\* UserService.delete_user
delete_user(db, user_id) ==
    LET user == get_user(db, user_id)
    IN  IF user = NoUser THEN [db |-> db, status |-> 404]
        ELSE [db |-> [db EXCEPT !.users = db.users \ {user},
                                !.user_currencies =
                                    { uc \in db.user_currencies :
                                        uc.user_id # user_id }],
              status |-> 204]

\* the body of UserResource.delete
UserResource_delete(db, requesting_user_id, user_id) ==
    IF user_id = requesting_user_id
    THEN [db |-> db, status |-> 403]
    ELSE delete_user(db, user_id)

\* a plausible slip: the currency list uses the exact admin test
CurrencyList_get_exact(db, user_id) ==
    LET user == get_user(db, user_id)
        role_name == role_name_of(db, user)
    IN  IF user = NoUser THEN [db |-> db, status |-> 500, codes |-> {}]
        ELSE IF role_name # None /\ role_name = "Admin"
        THEN [db |-> db, status |-> 200,
              codes |-> { cur.code : cur \in db.currencies }]
        ELSE [db |-> db, status |-> 200,
              codes |-> { cur.code : cur \in { x \in db.currencies : x.is_active } }]

\* CurrencyList.get: every currency for the administrator-like role names,
\* the active ones for everybody else
CurrencyList_get(db, user_id) ==
    LET user == get_user(db, user_id)
        role_name == role_name_of(db, user)
    IN  IF user = NoUser THEN [db |-> db, status |-> 500, codes |-> {}]
        ELSE IF role_name # None
                /\ role_name \in {"Admin", "Administrator", "Admininstrator"}
        THEN [db |-> db, status |-> 200,
              codes |-> { cur.code : cur \in db.currencies }]
        ELSE [db |-> db, status |-> 200,
              codes |-> { cur.code : cur \in { x \in db.currencies : x.is_active } }]

\* the body of CurrencyDetail.put for a request that carries is_active
CurrencyDetail_put(db, code, is_active) ==
    IF \A cur \in db.currencies : cur.code # code
    THEN [db |-> db, status |-> 404]
    ELSE [db |-> [db EXCEPT !.currencies =
                      { IF cur.code = code
                        THEN [cur EXCEPT !.is_active = is_active] ELSE cur :
                          cur \in db.currencies }],
          status |-> 200]

\* ------------------------------------------------------------------------
\* Currency assignments of the requesting user. A request is a frame that
\* moves from one statement sent to the database to the next: the reads
\* ("check"), the bulk UPDATE that unsets the current default ("unset"), and
\* the flush and commit ("commit"). A read and the bulk UPDATE see the rows
\* committed so far; the commit writes the rows and columns the request
\* changed and leaves the others as they are.
\* ------------------------------------------------------------------------
\* primary key, uq_user_currency and the two foreign keys
UserCurrenciesConstraints(ucs, us, curs) ==
    /\ \A a, b \in ucs :
          a # b => (a.user_id # b.user_id \/ a.currency_code # b.currency_code)
    /\ \A a \in ucs : /\ \E u \in us : u.id = a.user_id
                      /\ \E cur \in curs : cur.code = a.currency_code

NoAssignment == [user_id |-> 0, currency_code |-> None, is_default |-> FALSE]

\* UserCurrency.query.filter_by(user_id=..., currency_code=...).first()
get_user_currency(db, user_id, currency_code) ==
    IF \E uc \in db.user_currencies :
          uc.user_id = user_id /\ uc.currency_code = currency_code
    THEN CHOOSE uc \in db.user_currencies :
          uc.user_id = user_id /\ uc.currency_code = currency_code
    ELSE NoAssignment

\* Currency.query.get(code)
get_currency(db, code) ==
    IF \E cur \in db.currencies : cur.code = code
    THEN CHOOSE cur \in db.currencies : cur.code = code
    ELSE [code |-> None, is_active |-> FALSE]

\* a request of user `user_id`: op is "assign" (UserCurrencyList.post),
\* "update" (UserCurrencyDetail.put), "set_default" (UserDefaultCurrency.put)
\* or "remove" (UserCurrencyDetail.delete)
NewCurrencyCall(op, user_id, currency_code, data) ==
    [pc |-> "check", op |-> op, user_id |-> user_id,
     currency_code |-> currency_code, data |-> data,
     unset |-> {},             \* codes whose is_default its bulk UPDATE cleared
     sets |-> FALSE,           \* it assigned is_default = True to its row
     status |-> 0]

\* the reads and tests in front of the first write
uc_check(db, c) ==
    LET row == get_user_currency(db, c.user_id, c.currency_code)
        currency == get_currency(db, c.currency_code)
        count == Cardinality({ uc \in db.user_currencies : uc.user_id = c.user_id })
        wants_default == "is_default" \in DOMAIN c.data /\ c.data.is_default
        to(pc) == [db |-> db, c |-> [c EXCEPT !.pc = pc]]
    IN  CASE c.op = "assign" ->
               IF Falsy(c.currency_code) THEN Finish(db, c, 400)
               ELSE IF currency.code = None THEN Finish(db, c, 404)
               ELSE IF ~currency.is_active THEN Finish(db, c, 400)
               ELSE IF row # NoAssignment THEN Finish(db, c, 409)
               ELSE IF wants_default THEN to("unset")
               ELSE to("commit")
          [] c.op = "update" ->
               IF row = NoAssignment THEN Finish(db, c, 404)
               ELSE IF wants_default /\ ~row.is_default THEN to("unset")
               ELSE to("commit")
          [] c.op = "set_default" ->
               IF Falsy(c.currency_code) THEN Finish(db, c, 400)
               ELSE IF row = NoAssignment THEN Finish(db, c, 400)
               ELSE to("unset")
          [] c.op = "remove" ->
               IF row = NoAssignment THEN Finish(db, c, 404)
               ELSE IF row.is_default THEN Finish(db, c, 400)
               ELSE IF count <= 1 THEN Finish(db, c, 400)
               ELSE to("commit")

\* UserCurrency.query.filter_by(user_id=user_id, is_default=True)
\*     .update({'is_default': False}), then `is_default = True` on the
\* request's own row
uc_unset(db, c) ==
    [db |-> db,
     c |-> [c EXCEPT !.unset = { uc.currency_code :
                                   uc \in { x \in db.user_currencies :
                                              x.user_id = c.user_id /\ x.is_default } },
                     !.sets = c.op \in {"update", "set_default"},
                     !.pc = "commit"]]

\* db.session.add / delete, the flush and db.session.commit(); an exception
\* rolls the request's statements back
uc_commit(db, c) ==
    LET cleared == { IF uc.user_id = c.user_id /\ uc.currency_code \in c.unset
                     THEN [uc EXCEPT !.is_default = FALSE] ELSE uc :
                       uc \in db.user_currencies }
        mine(uc) == uc.user_id = c.user_id /\ uc.currency_code = c.currency_code
        present == \E uc \in cleared : mine(uc)
        new_assignment == [user_id |-> c.user_id, currency_code |-> c.currency_code,
                           is_default |-> IF "is_default" \in DOMAIN c.data
                                          THEN c.data.is_default ELSE FALSE]
        inserted == cleared \cup {new_assignment}
        updated == { IF mine(uc) THEN [uc EXCEPT !.is_default = TRUE] ELSE uc :
                       uc \in cleared }
        removed == { uc \in cleared : ~mine(uc) }
        done(rows, status) ==
            Finish([db EXCEPT !.user_currencies = rows], c, status)
    IN  CASE c.op = "assign" ->
               IF ~present /\ UserCurrenciesConstraints(inserted, db.users, db.currencies)
               THEN done(inserted, 201)
               ELSE Finish(db, c, 500)
          [] c.op \in {"update", "set_default"} ->
               IF ~c.sets THEN done(cleared, 200)
               ELSE IF present THEN done(updated, 200)
               ELSE Finish(db, c, 500)
          [] c.op = "remove" ->
               IF present THEN done(removed, 200) ELSE Finish(db, c, 500)

UcStep(db, c) ==
    CASE c.pc = "check"  -> uc_check(db, c)
      [] c.pc = "unset"  -> uc_unset(db, c)
      [] c.pc = "commit" -> uc_commit(db, c)
      [] OTHER           -> [db |-> db, c |-> c]

\* a whole request, run without another request in between
RECURSIVE UcRunFrom(_)
UcRunFrom(st) ==
    IF st.c.pc = "done" THEN st ELSE UcRunFrom(UcStep(st.db, st.c))

UcRun(db, c) == UcRunFrom([db |-> db, c |-> c])

\* TokenRefresh.post behind @jwt_required(refresh=True): a new access token
\* for the identity of the refresh token, which is not looked up
TokenRefresh_post(db, current_user_id) ==
    [db |-> [db EXCEPT !.tokens = db.tokens \cup {current_user_id}], status |-> 200]

\* @jwt_required() @admin_required in front of a handler body
Guarded(db, identity, result) ==
    IF admin_required(db, identity).status # 200
    THEN [db |-> db, status |-> 403]
    ELSE result

\* ------------------------------------------------------------------------
\* State
\* ------------------------------------------------------------------------
VARIABLES
    users,                \* rows of table users (committed)
    roles,                \* rows of table roles (committed)
    user_seq,             \* AUTO_INCREMENT of users.id
    role_seq,             \* AUTO_INCREMENT of roles.id
    tokens,               \* identities for which a JWT has been issued
    currencies,           \* rows of table currencies (committed)
    user_currencies,      \* rows of table user_currencies (committed)
    was_admin,            \* history: ids of the roles that have been named 'Admin'
    role_table,           \* the role -> patterns table the process loaded
    last,                 \* the last request handled and its outcome
    calls,                \* frames of the SSO calls in flight
    permission_patterns,  \* argument of the expand_permissions call in progress
    expanded,             \* its local set `expanded`, the value returned
    expand_pc             \* "call" before the loop has run, "return" after

storeVars == <<users, roles, user_seq, role_seq, tokens, currencies,
               user_currencies, was_admin>>

expandVars == <<permission_patterns, expanded, expand_pc>>

vars == <<users, roles, user_seq, role_seq, tokens, currencies,
          user_currencies, was_admin,
          role_table, last, calls, permission_patterns, expanded, expand_pc>>

DB == [users |-> users, roles |-> roles, user_seq |-> user_seq,
       role_seq |-> role_seq, tokens |-> tokens, currencies |-> currencies,
       user_currencies |-> user_currencies]

\* the store after a handler
Commit(db) ==
    /\ users' = db.users
    /\ roles' = db.roles
    /\ user_seq' = db.user_seq
    /\ role_seq' = db.role_seq
    /\ tokens' = db.tokens
    /\ currencies' = db.currencies
    /\ user_currencies' = db.user_currencies
    /\ was_admin' = was_admin \cup { r.id : r \in { x \in db.roles : x.name = "Admin" } }

\* ------------------------------------------------------------------------
\* Calls of Permission.expand_permissions on bounded pattern lists
\* ------------------------------------------------------------------------
\* the patterns the role table uses, the full wildcard, and literals and
\* wildcards that name resources or actions outside the known lists
PatternPool ==
    { <<Star, Dot, Star>> }
    \cup { <<r, Dot, Star>> : r \in {"users", "products", "inventory", "orders",
                                      "invoices", "contacts", "organizations",
                                      "payments", "reports"} }
    \cup { <<Star, Dot, a>> : a \in {"view", "edit", "create", "delete", "export"} }
    \cup { Perm("users", "view"), Perm("products", "view"), Perm("orders", "view"),
           Perm("orders", "edit"), Perm("payments", "refund"), Perm("x", "y") }

PatternLists ==
    UNION { [1..n -> PatternPool] : n \in 0..MaxPatterns }

\* rows of the currencies table the migration inserts (two of the eight)
SeededCurrencies ==
    { [code |-> "SGD", is_active |-> TRUE], [code |-> "USD", is_active |-> TRUE] }

\* the store after create_all_tables and create_default_admin: the Admin
\* role, the default admin account and the seeded currencies
InitStore ==
    /\ roles = { [id |-> 1, name |-> "Admin"] }
    /\ users = { [id |-> 1, name |-> "Admin User", email |-> "admin@x.com",
                  password_hash |-> hash_password("pw-1"),
                  google_sso_id |-> None, role_id |-> 1, is_active |-> TRUE,
                  currency_context |-> DEFAULT_CURRENCY] }
    /\ user_seq = 1
    /\ role_seq = 1
    /\ tokens = {}
    /\ currencies = SeededCurrencies
    /\ user_currencies = {}
    /\ was_admin = {1}

NoRequest == [op |-> "none", identity |-> 0, status |-> 0, arg |-> 0]

Procs == {1, 2}

Idle == [pc |-> "idle"]

InitIdle ==
    /\ role_table = ROLE_PERMISSIONS
    /\ last = NoRequest
    /\ calls = [p \in Procs |-> Idle]
    /\ permission_patterns = <<>>
    /\ expanded = {}
    /\ expand_pc = "call"

InitExpand ==
    /\ InitStore
    /\ role_table = ROLE_PERMISSIONS
    /\ last = NoRequest
    /\ calls = [p \in Procs |-> Idle]
    /\ permission_patterns \in PatternLists
    /\ expanded = {}
    /\ expand_pc = "call"

Expand ==
    /\ expand_pc = "call"
    /\ expanded' = expand_permissions(permission_patterns)
    /\ expand_pc' = "return"
    /\ UNCHANGED <<storeVars, role_table, last, calls, permission_patterns>>

\* the iteration orders of `for pattern in <a set>`: one order and its
\* reverse
RECURSIVE SetToSeq(_)
SetToSeq(S) ==
    IF S = {} THEN <<>>
    ELSE LET x == CHOOSE y \in S : TRUE
         IN  <<x>> \o SetToSeq(S \ {x})

Reverse(seq) == [i \in 1..Len(seq) |-> seq[Len(seq) + 1 - i]]

\* expand_permissions called on the set a call returned
ExpandAgain ==
    /\ expand_pc = "return"
    /\ \E patterns \in { SetToSeq(expanded), Reverse(SetToSeq(expanded)) } :
          /\ permission_patterns' = patterns
          /\ expanded' = expand_permissions(patterns)
    /\ expand_pc' = "again"
    /\ UNCHANGED <<storeVars, role_table, last, calls>>

\* expand_permissions called on the same list with one of its patterns
\* given a second time
ExpandDuplicate ==
    /\ expand_pc = "return"
    /\ \E i \in 1..Len(permission_patterns) :
          /\ permission_patterns' = Append(permission_patterns, permission_patterns[i])
          /\ expanded' = expand_permissions(permission_patterns')
    /\ expand_pc' = "duplicate"
    /\ UNCHANGED <<storeVars, role_table, last, calls>>

\* Permission.get_role_permissions(role_name) on the table of the source
RolePermissions ==
    /\ expand_pc = "call"
    /\ permission_patterns = <<>>
    /\ \E role_name \in DOMAIN ROLE_PERMISSIONS \cup {DEFAULT_USER_ROLE} :
          /\ expanded' = get_role_permissions(role_table, role_name)
          /\ last' = [op |-> "get_role_permissions", identity |-> 0, status |-> 0,
                      arg |-> role_name]
    /\ expand_pc' = "role"
    /\ UNCHANGED <<storeVars, role_table, calls, permission_patterns>>

NextExpand ==
    \/ Expand
    \/ ExpandAgain
    \/ ExpandDuplicate
    \/ RolePermissions

SpecExpand == InitExpand /\ [][NextExpand]_vars

\* ------------------------------------------------------------------------
\* Requests handled one at a time
\* ------------------------------------------------------------------------
\* the unique email and the unique role name bound the two tables
Emails == {"admin@x.com", "a@x.com"}

Subs == {"g-1", "g-2"}

Names == {"A", "B"}

Passwords == {"pw-1", "pw-2"}

\* an id no role has yet
NoSuchRoleId == role_seq + 1

RoleIds == { r.id : r \in roles }

UserIds == { u.id : u \in users }

\* request bodies of POST /users/register
RegisterInputs ==
    { [name |-> "A", email |-> e, password |-> "pw-1"] : e \in Emails }
    \cup { [name |-> "A", email |-> e, password |-> "pw-1", role_id |-> r,
            is_active |-> FALSE] :
              e \in Emails, r \in RoleIds \cup {NoSuchRoleId} }

\* request bodies of PUT /users/<id>
UpdateInputs ==
    { [email |-> e] : e \in Emails }
    \cup { [is_active |-> b] : b \in BOOLEAN }
    \cup { [role_id |-> r] : r \in RoleIds \cup {NoRole, NoSuchRoleId} }

\* identity assertions: email (empty when the provider sent none), subject
\* id (None when absent) and display name
Assertions ==
    { [email |-> e, sub |-> g, name |-> "A"] : e \in Emails, g \in Subs }
    \cup { [email |-> "a@x.com", sub |-> None, name |-> "B"],
           [email |-> "", sub |-> "g-1", name |-> "B"],
           [email |-> None, sub |-> "g-1", name |-> "B"] }

Handled(op, identity, arg, r) ==
    /\ Commit(r.db)
    /\ last' = [op |-> op, identity |-> identity, status |-> r.status, arg |-> arg]
    /\ UNCHANGED <<role_table, calls, expandVars>>

\* UserService.create_user
CreateUserFrom(inputs) ==
    \E data \in inputs :
        \E r \in { create_user(DB, data) } :
            Handled("create_user", 0, 0, r)

CreateUser == CreateUserFrom(RegisterInputs)

\* UserService.update_user
UpdateUserFrom(inputs) ==
    \E user_id \in UserIds, data \in inputs :
        \E r \in { update_user(DB, user_id, data) } :
            Handled("update_user", 0, 0, r)

UpdateUser == UpdateUserFrom(UpdateInputs)

\* RoleService.create_role for the default role's name
CreateDefaultRole ==
    \E r \in { create_role(DB, DEFAULT_USER_ROLE) } :
        Handled("create_role", 0, 0, r)

\* GET /auth/google/callback, and AuthService.process_google_auth, each as
\* one uninterrupted call
GoogleAuth ==
    \E impl \in {"route", "service"}, a \in Assertions :
        \E r \in { Run(DB, NewCall(impl, a.email, a.sub, a.name)) } :
            Handled("google_auth", 0, r.c, [db |-> r.db, status |-> r.c.status])

Next ==
    \/ CreateUser
    \/ UpdateUser
    \/ CreateDefaultRole
    \/ GoogleAuth

Init == InitStore /\ InitIdle

\* ------------------------------------------------------------------------
\* SSO calls of two workers interleaved at their database round trips
\* ------------------------------------------------------------------------
\* the assertions and request bodies of the interleaved runs
ConcAssertions ==
    { [email |-> "a@x.com", sub |-> "g-1", name |-> "A"],
      [email |-> "a@x.com", sub |-> "g-2", name |-> "B"],
      [email |-> "admin@x.com", sub |-> "g-1", name |-> "A"] }

ConcRegisterInputs == { [name |-> "A", email |-> "a@x.com", password |-> "pw-1"] }

ConcUpdateInputs == { [email |-> "a@x.com"], [is_active |-> FALSE] }

ConcCreateUser == CreateUserFrom(ConcRegisterInputs)

ConcUpdateUser == UpdateUserFrom(ConcUpdateInputs)

StartCall(p) ==
    /\ calls[p].pc = "idle"
    /\ \E impl \in {"route", "service"}, a \in ConcAssertions :
          calls' = [calls EXCEPT ![p] = NewCall(impl, a.email, a.sub, a.name)]
    /\ UNCHANGED <<storeVars, role_table, last, expandVars>>

StepCall(p) ==
    /\ calls[p].pc \notin {"idle", "done"}
    /\ \E r \in { Step(DB, calls[p]) } :
          /\ Commit(r.db)
          /\ calls' = [calls EXCEPT ![p] = r.c]
    /\ UNCHANGED <<role_table, last, expandVars>>

NextConc ==
    \/ \E p \in Procs : StartCall(p)
    \/ \E p \in Procs : StepCall(p)
    \/ ConcCreateUser
    \/ ConcUpdateUser
    \/ CreateDefaultRole

SpecConc == Init /\ [][NextConc]_vars

Spec == Init /\ [][Next]_vars

\* ------------------------------------------------------------------------
\* C4: the expansion is exactly the union of what each pattern denotes
\* ------------------------------------------------------------------------
KnownResourceSet == { KnownResources[i] : i \in 1..Len(KnownResources) }

KnownActionSet == { KnownActions[j] : j \in 1..Len(KnownActions) }

\* what the contract says one pattern stands for
Denotes(pattern) ==
    IF pattern[1] = Star /\ pattern[3] = Star
    THEN { Perm(r, a) : r \in KnownResourceSet, a \in KnownActionSet }
    ELSE IF pattern[3] = Star
    THEN { Perm(pattern[1], a) : a \in KnownActionSet }
            \cap { Perm(r, a) : r \in KnownResourceSet, a \in KnownActionSet }
    ELSE IF pattern[1] = Star
    THEN { Perm(r, pattern[3]) : r \in KnownResourceSet }
            \cap { Perm(r, a) : r \in KnownResourceSet, a \in KnownActionSet }
    ELSE { pattern }

\* C4: for every pattern list, expand_permissions returns exactly the union
\* over its patterns of: the full cross product of known resources and
\* actions for '*.*', every known 'r.a' of that resource for 'r.*', every
\* known 'r.a' of that action for '*.a', and any other literal verbatim,
\* also when it names a resource or action outside the known lists.
C4_ExpandIsUnionOfDenotations ==
    expand_pc = "return" =>
        expanded = UNION { Denotes(permission_patterns[i]) :
                             i \in 1..Len(permission_patterns) }

\* a call that mixed a wildcard with a literal outside the known universe
C4_Witness ==
    /\ expand_pc = "return"
    /\ permission_patterns = << <<Star, Dot, "view">>, Perm("x", "y") >>
    /\ Perm("x", "y") \in expanded
    /\ Perm("payments", "view") \in expanded
    /\ Cardinality(expanded) = 9

\* ------------------------------------------------------------------------
\* The gates in front of requests, over the stores the admin routes produce
\* ------------------------------------------------------------------------
\* tables the process may have loaded: the one in the source, one whose
\* Admin entry is empty, and one without an Admin entry in which the default
\* role holds 'orders.*' alone
RoleTables ==
    { ROLE_PERMISSIONS,
      ( "Admin" :> <<>> ) @@ ROLE_PERMISSIONS,
      ( "Sales" :> << <<Star, Dot, "view">>, <<"orders", Dot, Star>> >> )
          @@ ( "User" :> << <<"orders", Dot, Star>> >> ) }

GateRoleNames == {"Sales", "User", "admin"}

GatePermissions ==
    { Perm("orders", "create"), Perm("products", "view"), Perm("products", "edit"),
      Perm("invoices", "view"), Perm("x", "y") }

GateRoleLists == { {"Admin"}, {"Sales", "User", "admin"} }

GateUpdateInputs ==
    { [is_active |-> b] : b \in BOOLEAN }
    \cup { [role_id |-> r] : r \in RoleIds \cup {NoRole} }

GateRegisterInputs ==
    { [name |-> "A", email |-> "a@x.com", password |-> "pw-1"] }
    \cup { [name |-> "A", email |-> "a@x.com", password |-> "pw-1", role_id |-> r] :
              r \in RoleIds }

InitGate ==
    /\ InitStore
    /\ role_table \in RoleTables
    /\ last = NoRequest
    /\ calls = [p \in Procs |-> Idle]
    /\ permission_patterns = <<>>
    /\ expanded = {}
    /\ expand_pc = "call"

\* POST /users/login
Login ==
    \E email \in Emails, password \in Passwords :
        \E r \in { UserLogin_post(DB, email, password) } :
            Handled("login", 0, 0, r)

\* POST /users/roles
RoleList_post ==
    \E identity \in tokens, name \in GateRoleNames :
        \E r \in { Guarded(DB, identity, create_role(DB, name)) } :
            Handled("create_role", identity, 0, r)

\* POST /users/register
UserRegister_post ==
    \E identity \in tokens, data \in GateRegisterInputs :
        \E r \in { Guarded(DB, identity, create_user(DB, data)) } :
            Handled("register", identity, 0, r)

\* PUT /users/<user_id>
UserResource_put ==
    \E identity \in tokens, user_id \in UserIds, data \in GateUpdateInputs :
        \E r \in { Guarded(DB, identity, update_user(DB, user_id, data)) } :
            Handled("update_user", identity, 0, r)

\* a request to a function wrapped by permission_required(permission)
PermissionGate ==
    \E identity \in tokens, permission \in GatePermissions :
        \E r \in { permission_required(DB, role_table, identity, permission) } :
            /\ last' = [op |-> "permission_required", identity |-> identity,
                        status |-> r.status,
                        arg |-> [permission |-> permission, message |-> r.message]]
            /\ UNCHANGED <<storeVars, role_table, calls, expandVars>>

\* a request to a function wrapped by role_required(roles)
RoleGate ==
    \E identity \in tokens, role_names \in GateRoleLists :
        \E r \in { role_required(DB, identity, role_names) } :
            /\ last' = [op |-> "role_required", identity |-> identity,
                        status |-> r.status,
                        arg |-> [roles |-> role_names, message |-> r.message]]
            /\ UNCHANGED <<storeVars, role_table, calls, expandVars>>

NextGate ==
    \/ Login
    \/ RoleList_post
    \/ UserRegister_post
    \/ UserResource_put
    \/ PermissionGate
    \/ RoleGate

SpecGate == InitGate /\ [][NextGate]_vars

\* ------------------------------------------------------------------------
\* Administration of roles and users, through the admin routes ("route":
\* the handler body behind @jwt_required() @admin_required) and through the
\* service layer ("service": RoleService, UserService, which take no
\* requester); `identity` is the authenticated requester in both
\* ------------------------------------------------------------------------
MaxUserId == 3

MaxRoleId == 3

Vias == {"route", "service"}

AdminRoleNames == {"Admin", "Old"}

Via(via, identity, result) ==
    IF via = "route" THEN Guarded(DB, identity, result) ELSE result

\* POST /users/register while ids are left
RegisterUser == user_seq < MaxUserId /\ UserRegister_post

\* POST /users/roles, RoleService.create_role
RoleCreate ==
    /\ role_seq < MaxRoleId
    /\ \E via \in Vias, identity \in tokens, name \in AdminRoleNames :
          \E r \in { Via(via, identity, create_role(DB, name)) } :
              Handled("create_role", identity, [via |-> via, id |-> 0], r)

\* PUT /users/roles/<role_id>, RoleService.update_role
RoleRename ==
    \E via \in Vias, identity \in tokens, role_id \in RoleIds, name \in AdminRoleNames :
        \E r \in { Via(via, identity, update_role(DB, role_id, name)) } :
            Handled("update_role", identity, [via |-> via, id |-> role_id], r)

\* DELETE /users/roles/<role_id>, RoleService.delete_role
RoleDelete ==
    \E via \in Vias, identity \in tokens, role_id \in RoleIds :
        \E r \in { Via(via, identity, delete_role(DB, role_id)) } :
            Handled("delete_role", identity, [via |-> via, id |-> role_id], r)

\* DELETE /users/<user_id>, UserService.delete_user
UserDelete ==
    \E via \in Vias, identity \in tokens, user_id \in UserIds :
        \E r \in { IF via = "route"
                   THEN Guarded(DB, identity, UserResource_delete(DB, identity, user_id))
                   ELSE delete_user(DB, user_id) } :
            Handled("delete_user", identity, [via |-> via, id |-> user_id], r)

NextAdmin ==
    \/ Login
    \/ RegisterUser
    \/ UserResource_put
    \/ RoleCreate
    \/ RoleRename
    \/ RoleDelete
    \/ UserDelete

SpecAdmin == Init /\ [][NextAdmin]_vars

\* ------------------------------------------------------------------------
\* The two admin tests side by side: the currency list against the gates
\* ------------------------------------------------------------------------
FuzzyRoleNames == {"Administrator", "Admininstrator"}

CurrencyCodes == { cur.code : cur \in SeededCurrencies }

\* POST /users/roles for the near-miss spellings
FuzzyRoleList_post ==
    \E identity \in tokens, name \in FuzzyRoleNames :
        \E r \in { Guarded(DB, identity, create_role(DB, name)) } :
            Handled("create_role", identity, 0, r)

\* PUT /currencies/<code>
UpdateCurrency ==
    \E identity \in tokens, code \in CurrencyCodes, is_active \in BOOLEAN :
        \E r \in { Guarded(DB, identity, CurrencyDetail_put(DB, code, is_active)) } :
            Handled("update_currency", identity, 0, r)

\* GET /currencies/
ListCurrencies ==
    \E identity \in tokens :
        \E r \in { CurrencyList_get(DB, identity) } :
            Handled("currency_list", identity, [codes |-> r.codes], r)

NextFuzzy ==
    \/ Login
    \/ FuzzyRoleList_post
    \/ UserRegister_post
    \/ UserResource_put
    \/ UpdateCurrency
    \/ ListCurrencies
    \/ PermissionGate
    \/ RoleGate

SpecFuzzy == Init /\ [][NextFuzzy]_vars

\* ------------------------------------------------------------------------
\* C1, C2, C3, C5, C6: decisions of the gates
\* ------------------------------------------------------------------------
\* the account the last gate looked at, and the name of its role
GateUser == get_user(DB, last.identity)

GateRole == role_name_of(DB, GateUser)

\* permission_required ran for an existing, active account that has a role
PermissionDecided ==
    /\ last.op = "permission_required"
    /\ GateUser # NoUser
    /\ GateUser.is_active
    /\ GateRole # None

\* what the declared patterns of a role stand for
Declared(role_name) ==
    IF role_name \in DOMAIN role_table
    THEN UNION { Denotes(role_table[role_name][i]) :
                    i \in 1..Len(role_table[role_name]) }
    ELSE {}

\* C1: for every role name that is not a key of the role table and is not
\* 'Admin', get_role_permissions returns the empty set and the permission
\* check denies every permission to an active user holding that role.
C1_UnknownRoleFailsClosed ==
    (PermissionDecided /\ GateRole \notin DOMAIN role_table /\ GateRole # "Admin")
        => /\ get_role_permissions(role_table, GateRole) = {}
           /\ last.status = 403

\* an active account with the default role, which the source's table does
\* not list, was refused a permission every listed role has
C1_Witness ==
    /\ PermissionDecided
    /\ role_table = ROLE_PERMISSIONS
    /\ GateRole = "User"
    /\ last.arg.permission = Perm("products", "view")
    /\ last.status = 403
    /\ last.arg.message = "Missing required permission"

\* C2: an active user whose role is named exactly 'Admin' is allowed every
\* permission, inside or outside the known universe and the declared
\* patterns, whatever the table holds for 'Admin', even an empty list.
C2_AdminAllowedEverything ==
    (PermissionDecided /\ GateRole = "Admin") => last.status = 200

\* Admin was allowed a permission outside the universe under a table whose
\* Admin entry is empty
C2_Witness ==
    /\ PermissionDecided
    /\ GateRole = "Admin"
    /\ "Admin" \in DOMAIN role_table
    /\ role_table["Admin"] = <<>>
    /\ last.arg.permission = Perm("x", "y")
    /\ last.status = 200

\* role names that equal 'admin' once case is normalised
AdminWhenLowered == {"Admin", "admin", "ADMIN"}

\* C3 as stated: every role whose name equals 'admin' after case
\* normalisation is granted every permission unconditionally.
C3_CaseInsensitiveAdmin ==
    (PermissionDecided /\ GateRole \in AdminWhenLowered) => last.status = 200

\* C3 as amended: the short-circuit is case-sensitive. A role whose name
\* differs from 'Admin' only in case gets no short-circuit: it is allowed a
\* permission exactly when its own entry of the table grants it, so with no
\* entry it is denied.
C3_AdminShortCircuitIsExact ==
    (PermissionDecided /\ GateRole \in AdminWhenLowered \ {"Admin"})
        => /\ last.status = 200 <=> last.arg.permission \in Declared(GateRole)
           /\ GateRole \notin DOMAIN role_table => last.status = 403

\* an active account with the role 'admin' was refused
C3_Witness ==
    /\ PermissionDecided
    /\ GateRole = "admin"
    /\ last.arg.permission = Perm("orders", "create")
    /\ last.status = 403

\* C5: for every role other than Admin that the table declares, and every
\* permission p, the check allows p iff p is in the expansion of the role's
\* declared patterns. For Sales ('*.view', 'orders.*', ...): orders.create
\* and products.view are allowed, products.edit is denied; a role holding
\* 'orders.*' is not granted invoices.view unless another pattern grants it.
C5_DeclaredRoleAllowedIffExpanded ==
    (PermissionDecided /\ GateRole \in DOMAIN role_table /\ GateRole # "Admin")
        => /\ last.status = 200 <=> last.arg.permission \in Declared(GateRole)
           /\ last.status \in {200, 403}
           /\ (GateRole = "Sales" /\ last.arg.permission = Perm("orders", "create"))
                 => last.status = 200
           /\ (GateRole = "Sales" /\ last.arg.permission = Perm("products", "view"))
                 => last.status = 200
           /\ (GateRole = "Sales" /\ last.arg.permission = Perm("products", "edit"))
                 => last.status = 403
           /\ ( /\ last.arg.permission = Perm("invoices", "view")
                /\ \A i \in 1..Len(role_table[GateRole]) :
                      role_table[GateRole][i] \in
                          { <<"orders", Dot, Star>>, <<"contacts", Dot, Star>>,
                            <<"organizations", Dot, Star>> } )
                 => last.status = 403

\* Sales was allowed products.view, which only '*.view' grants
C5_Witness ==
    /\ PermissionDecided
    /\ role_table = ROLE_PERMISSIONS
    /\ GateRole = "Sales"
    /\ last.arg.permission = Perm("products", "view")
    /\ last.status = 200

\* C6: a user with no role is denied by every gate: permission_required
\* refuses every permission and role_required / admin_required answers 403
\* for every role list, so the protected operation never runs: the step
\* changes nothing in the store.
C6_RolelessDeniedByEveryGate ==
    [][ \A u \in users :
          ( /\ last'.identity = u.id
            /\ last'.op \in {"permission_required", "role_required",
                             "create_role", "register", "update_user"}
            /\ role_name_of(DB, u) = None )
              => /\ last'.status = 403
                 /\ UNCHANGED storeVars ]_vars

\* an active account without a role was refused by permission_required
C6_Witness ==
    /\ last.op = "permission_required"
    /\ GateUser # NoUser
    /\ GateUser.is_active
    /\ GateUser.role_id = NoRole
    /\ last.status = 403
    /\ last.arg.message = "User has no assigned role"

\* ------------------------------------------------------------------------
\* C7: an assertion matching two different accounts
\* ------------------------------------------------------------------------
\* C7: when the assertion's email matches one account and its subject id is
\* linked to a different account, reconciliation fails with a conflict
\* (409, 'ambiguous identity') and returns neither account.
C7_AmbiguousIdentityIsConflict ==
    (last.op = "google_auth" /\ last.arg.other_by_sub # 0)
        => last.status = 409

\* ------------------------------------------------------------------------
\* C8: the creation path
\* ------------------------------------------------------------------------
\* the call handled by this step, when it was an SSO call for an assertion
\* with an email that matched no account by email or by subject id
CreatesFor(c) ==
    /\ last'.op = "google_auth"
    /\ c = last'.arg
    /\ ~Falsy(c.email)
    /\ \A u \in users : u.email # c.email
    /\ \A u \in users : Falsy(c.google_id) \/ u.google_sso_id # c.google_id

\* C8: reconciling an assertion whose email and subject id match no account
\* adds exactly one account, with the assertion's email, name and subject
\* id, active, with the default role attached and the default currency, and
\* leaves every account that existed unchanged.
C8_CreationAddsOneAccount ==
    [][ \A c \in {last'.arg} :
          CreatesFor(c) =>
            \E new \in users' :
                /\ new \notin users
                /\ users' = users \cup {new}
                /\ new.id \notin { u.id : u \in users }
                /\ new.email = c.email
                /\ new.name = c.name
                /\ new.google_sso_id = c.google_id
                /\ new.is_active
                /\ new.currency_context = DEFAULT_CURRENCY
                /\ \E r \in roles' : r.id = new.role_id /\ r.name = DEFAULT_USER_ROLE
                /\ c.status = 200
                /\ c.user.id = new.id ]_vars

\* a call that created the second account and, with it, the default role
C8_Witness ==
    /\ last.op = "google_auth"
    /\ last.arg.found_by = "created"
    /\ last.status = 200
    /\ Cardinality(users) = 2
    /\ \E u \in users :
          /\ u.id = last.arg.user.id
          /\ u.email = "a@x.com" /\ u.google_sso_id = "g-2" /\ u.is_active
          /\ role_name_of(DB, u) = DEFAULT_USER_ROLE

\* ------------------------------------------------------------------------
\* C9, C10: the uniqueness race
\* ------------------------------------------------------------------------
\* C9: a call whose insert of the new account hit the store's uniqueness
\* constraint re-reads the account and completes successfully, returning the
\* account the other call created.
C9_LateConflictIsResolved ==
    \A p, q \in Procs :
        ( /\ calls[p].pc = "done" /\ calls[p].insert_raised
          /\ q # p /\ calls[q].pc # "idle"
          /\ calls[q].found_by = "created" /\ calls[q].email = calls[p].email )
            => /\ calls[p].status = 200
               /\ calls[p].user.id = calls[q].user.id

\* C10: in every reachable state no two accounts have the same email and no
\* two accounts have the same non-null provider subject id.
C10_EmailAndSubjectIdUnique ==
    \A u, v \in users :
        u.id # v.id =>
            /\ u.email # v.email
            /\ (u.google_sso_id # None => u.google_sso_id # v.google_sso_id)

\* two accounts exist, and a commit that would have broken uniqueness was
\* refused: an insert racing another, or a link of a subject id already taken
C10_Witness ==
    /\ Cardinality(users) = 2
    /\ \E p \in Procs :
          /\ calls[p].pc = "done"
          /\ calls[p].status = 500
          /\ calls[p].found_by = "email"
          /\ calls[p].other_by_sub # 0

\* ------------------------------------------------------------------------
\* C11, C12, C13, C16, C17: what one reconciliation call does to the account
\* it resolves to, each call running without another request in between
\* ------------------------------------------------------------------------
\* the account an assertion resolves to in the current store: the one with
\* its email, else the one its subject id is linked to, else NoUser
ResolvesTo(email, google_id) ==
    IF get_by_email(DB, email) # NoUser THEN get_by_email(DB, email)
    ELSE IF Falsy(google_id) THEN NoUser
    ELSE get_by_google_sso_id(DB, google_id)

\* the call handled by this step, when it was an SSO call
SsoCall(c) == last'.op = "google_auth" /\ c = last'.arg

\* the assertion's email matches an account with no subject id linked, and
\* its subject id (when it has one) is not linked to another account
LinksFor(c) ==
    /\ SsoCall(c)
    /\ ~Falsy(c.email)
    /\ get_by_email(DB, c.email) # NoUser
    /\ Falsy(get_by_email(DB, c.email).google_sso_id)
    /\ (Falsy(c.google_id) \/ get_by_google_sso_id(DB, c.google_id) = NoUser)

\* C11: reconciling an assertion whose email matches an account with no
\* subject id linked sets that account's google_sso_id to the assertion's
\* subject id when it carries one (and leaves it unset otherwise) and leaves
\* the account's email, role, name and password hash unchanged.
C11_LinkKeepsEmailRoleNamePassword ==
    [][ \A c \in {last'.arg} :
          LinksFor(c) =>
            \E old \in users, new \in users' :
                /\ old.email = c.email
                /\ new.id = old.id
                /\ new.google_sso_id =
                       (IF Falsy(c.google_id) THEN old.google_sso_id ELSE c.google_id)
                /\ new.email = old.email
                /\ new.role_id = old.role_id
                /\ new.name = old.name
                /\ new.password_hash = old.password_hash
                /\ roles' = roles ]_vars

\* the password account of the administrator has just been linked
C11_Witness ==
    /\ last.op = "google_auth"
    /\ last.status = 200
    /\ last.arg.found_by = "email"
    /\ last.arg.written = {"google_sso_id"}
    /\ \E u \in users :
          /\ u.id = last.arg.user.id
          /\ u.google_sso_id = last.arg.google_id
          /\ u.email = last.arg.email
          /\ ~Falsy(u.password_hash)
          /\ u.name # last.arg.name

\* C12: when no account has the assertion's email and an account is found by
\* subject id, then after the call has completed the committed email of that
\* account equals the assertion's email, also when the account was already
\* active so that nothing else changes in the call.
C12_EmailDriftIsPersisted ==
    ( /\ last.op = "google_auth"
      /\ last.status = 200
      /\ last.arg.found_by = "google_sso_id" )
        => get_user(DB, last.arg.user.id).email = last.arg.email

\* the assertion resolves to an inactive account, and not to two accounts
ReactivatesFor(c) ==
    /\ SsoCall(c)
    /\ ~Falsy(c.email)
    /\ ResolvesTo(c.email, c.google_id) # NoUser
    /\ ~ResolvesTo(c.email, c.google_id).is_active
    /\ c.other_by_sub = 0

\* C13: reconciling an assertion that resolves to an inactive account sets
\* is_active to true in the committed row and the call succeeds with tokens
\* for that account, whatever requests came before (an admin update that
\* set is_active to false, a registration of an inactive account).
C13_InactiveAccountIsReactivated ==
    [][ \A c \in {last'.arg} :
          ReactivatesFor(c) =>
            /\ c.status = 200
            /\ c.user.id = ResolvesTo(c.email, c.google_id).id
            /\ \E u \in users' : u.id = c.user.id /\ u.is_active
            /\ c.user.id \in tokens' ]_vars

\* a call has just reactivated an account and succeeded
C13_Witness ==
    /\ last.op = "google_auth"
    /\ last.status = 200
    /\ "is_active" \in last.arg.written
    /\ get_user(DB, last.arg.user.id).is_active
    /\ last.arg.user.id \in tokens

\* the assertion resolves to an active account that has a subject id linked
\* and has the assertion's email
NothingToDoFor(c) ==
    /\ SsoCall(c)
    /\ ~Falsy(c.email)
    /\ ResolvesTo(c.email, c.google_id) # NoUser
    /\ ResolvesTo(c.email, c.google_id).is_active
    /\ ~Falsy(ResolvesTo(c.email, c.google_id).google_sso_id)
    /\ ResolvesTo(c.email, c.google_id).email = c.email

\* C16: a reconciliation call commits to the account store only when a
\* field changed: a call that committed an update changed a row, and a call
\* for an active, linked account with the assertion's email commits nothing
\* and leaves users and roles as they were.
C16_NoWriteWithoutChange ==
    [][ \A c \in {last'.arg} :
          /\ (SsoCall(c) /\ "update" \in c.writes) => users' # users
          /\ NothingToDoFor(c) =>
                /\ c.writes = {}
                /\ c.status = 200
                /\ UNCHANGED <<users, roles, user_seq, role_seq>> ]_vars

\* a linked, active account has just signed in again: nothing was written
C16_Witness ==
    /\ last.op = "google_auth"
    /\ last.status = 200
    /\ last.arg.found_by = "email"
    /\ last.arg.writes = {}
    /\ last.arg.user.google_sso_id = last.arg.google_id
    /\ last.arg.user = get_user(DB, last.arg.user.id)

\* C17: an assertion whose email is missing or empty is answered 400 before
\* any lookup, and neither the store nor the set of issued tokens changes.
C17_MissingEmailIsBadRequest ==
    [][ \A c \in {last'.arg} :
          (SsoCall(c) /\ Falsy(c.email)) =>
            /\ c.status = 400
            /\ c.found_by = "none"
            /\ c.writes = {}
            /\ UNCHANGED storeVars ]_vars

\* an assertion without email was refused although its subject id is linked
\* to an account
C17_Witness ==
    /\ last.op = "google_auth"
    /\ last.status = 400
    /\ last.arg.email = None
    /\ \E u \in users : u.google_sso_id = last.arg.google_id

\* ------------------------------------------------------------------------
\* C14, C15: calls interleaved with other requests
\* ------------------------------------------------------------------------
\* C14: a reconciliation call that ends successfully returns, and issues
\* tokens for, an account that is active when the call makes its final
\* check (read back from the store when the call has committed); a call
\* whose account is inactive at that check ends with 403; and no call that
\* ends otherwise than successfully issues a token.
C14_SuccessOnlyForActiveAccount ==
    [][ \A p \in Procs :
          (calls[p].pc \notin {"idle", "done"} /\ calls'[p].pc = "done") =>
            /\ calls'[p].status = 200 =>
                  /\ calls'[p].user.is_active
                  /\ tokens' = tokens \cup {calls'[p].user.id}
                  /\ calls[p].expired =>
                        \E u \in users' : u.id = calls'[p].user.id /\ u.is_active
            /\ calls'[p].status # 200 => tokens' = tokens
            /\ (calls[p].pc = "final" /\ calls'[p].status # 500) =>
                  (calls'[p].status = 403 <=> ~calls'[p].user.is_active) ]_vars

\* one call was refused because its account had been deactivated after the
\* call's commit, and another call has signed in successfully
C14_Witness ==
    \E p, q \in Procs :
        /\ calls[p].pc = "done" /\ calls[q].pc = "done"
        /\ calls[p].status = 403
        /\ ~calls[p].user.is_active
        /\ calls[p].writes # {}
        /\ calls[q].status = 200
        /\ calls[q].user.is_active

\* C15: when get_or_create_default_role has returned None, the creation
\* path still commits the new account, without a role, and the permission
\* check denies that account every permission under every role table
\* (unless the insert itself is refused because another request has created
\* an account with the same email or subject id in the meantime).
C15_RoleFailureLeavesRolelessAccount ==
    [][ \A p \in Procs :
          ( /\ calls[p].pc = "insert_user"
            /\ calls[p].default_role = NoRole
            /\ calls'[p] # calls[p]
            /\ \A u \in users :
                  /\ u.email # calls[p].email
                  /\ (Falsy(calls[p].google_id) \/ u.google_sso_id # calls[p].google_id) )
            => \E new \in users' :
                  /\ new \notin users
                  /\ users' = users \cup {new}
                  /\ new.email = calls[p].email
                  /\ new.role_id = NoRole
                  /\ calls'[p].user.id = new.id
                  /\ "user" \in calls'[p].writes
                  /\ \A table \in RoleTables, permission \in GatePermissions :
                        permission_required(DB', table, new.id, permission).status = 403
       ]_vars

\* a call lost the race for the default role and has committed its account
\* without a role
C15_Witness ==
    \E p \in Procs :
        /\ calls[p].pc # "idle"
        /\ calls[p].found_by = "created"
        /\ calls[p].default_role = NoRole
        /\ \E u \in users : u.id = calls[p].user.id /\ u.role_id = NoRole
        /\ \E r \in roles : r.name = DEFAULT_USER_ROLE

\* ------------------------------------------------------------------------
\* C18, C19: what the admin operations protect
\* ------------------------------------------------------------------------
\* C18: after any sequence of role creations, renames and deletions, every
\* role that has been named 'Admin' at some point is still in the store.
C18_AdminRoleIsNeverDeleted ==
    \A id \in was_admin : \E r \in roles : r.id = id

\* C19: a delete-user request whose target is the requester's own account
\* is answered 403 and the account stays in the store, through the DELETE
\* route and through UserService.delete_user alike.
C19_NoSelfDelete ==
    (last.op = "delete_user" /\ last.arg.id = last.identity)
        => /\ last.status = 403
           /\ \E u \in users : u.id = last.identity

\* ------------------------------------------------------------------------
\* C20: the coarse and the exact admin test
\* ------------------------------------------------------------------------
\* the role name of the requester of the last request, None without a role
RequesterRole == role_name_of(DB, get_user(DB, last.identity))

\* C20: for a requester whose role is named 'Administrator' or
\* 'Admininstrator', the currency list returns every currency, inactive
\* ones included, while permission_required gives no short-circuit (the
\* answer is 200 exactly for the permissions the role's own table entry
\* expands to) and admin_required answers 403.
C20_FuzzyAndExactAdminAreDistinct ==
    (last.identity \in UserIds /\ RequesterRole \in {"Administrator", "Admininstrator"})
        => /\ last.op = "currency_list" =>
                 last.arg.codes = { cur.code : cur \in currencies }
           /\ last.op = "permission_required" =>
                 (last.status = 200 <=>
                    ( /\ get_user(DB, last.identity).is_active
                      /\ last.arg.permission \in
                             get_role_permissions(role_table, RequesterRole) ))
           /\ (last.op = "role_required" /\ last.arg.roles = {"Admin"}) =>
                 last.status = 403

\* a requester with role 'Administrator' has been listed an inactive
\* currency
C20_Witness ==
    /\ last.op = "currency_list"
    /\ last.identity \in UserIds
    /\ RequesterRole = "Administrator"
    /\ \E cur \in currencies : ~cur.is_active /\ cur.code \in last.arg.codes
    /\ admin_required(DB, last.identity).status = 403

\* ------------------------------------------------------------------------
\* Sessions: the three operations that issue access tokens, next to the
\* admin requests that deactivate and delete accounts
\* ------------------------------------------------------------------------
\* POST /users/refresh with the refresh token a login returned
TokenRefresh ==
    \E identity \in tokens :
        \E r \in { TokenRefresh_post(DB, identity) } :
            Handled("refresh", identity, 0, r)

\* GET /auth/google/callback while ids are left
SsoLogin == user_seq < MaxUserId /\ GoogleAuth

NextSession ==
    \/ Login
    \/ SsoLogin
    \/ TokenRefresh
    \/ RegisterUser
    \/ UserResource_put
    \/ UserDelete

SpecSession == Init /\ [][NextSession]_vars

\* ------------------------------------------------------------------------
\* C25: token issuance
\* ------------------------------------------------------------------------
\* the step answers 200 with an access token for account `id`
IssuesTokenFor(id) ==
    /\ last'.status = 200
    /\ \/ last'.op = "refresh" /\ last'.identity = id
       \/ last'.op = "login" /\ id \in tokens' \ tokens
       \/ /\ last'.op = "google_auth"
          /\ last'.arg.impl = "route"
          /\ last'.arg.user # NoUser
          /\ last'.arg.user.id = id

\* C25: password login, the SSO callback and token refresh issue an access
\* token only for an account that exists and is active at that moment.
C25_TokensOnlyForActiveAccounts ==
    [][ \A id \in 1..MaxUserId :
            IssuesTokenFor(id)
                => \E u \in users' : u.id = id /\ u.is_active ]_vars

\* ------------------------------------------------------------------------
\* Accounts that sign in through the provider and then meet the gates, with
\* the role table of the source
\* ------------------------------------------------------------------------
NextOnboard ==
    \/ Login
    \/ SsoLogin
    \/ UserResource_put
    \/ PermissionGate
    \/ RoleGate

SpecOnboard == Init /\ [][NextOnboard]_vars

\* ------------------------------------------------------------------------
\* Currency assignments, one request at a time
\* ------------------------------------------------------------------------
\* a seeded code and one that table currencies does not have
AssignmentCodes == CurrencyCodes \cup {"EUR"}

NoData == [k \in {} |-> FALSE]

AssignmentData == { NoData, [is_default |-> TRUE], [is_default |-> FALSE] }

\* a request behind @jwt_required(), from its first statement to its commit
CurrencyRequest(op, datas) ==
    \E identity \in tokens, code \in AssignmentCodes, data \in datas :
        \E r \in { UcRun(DB, NewCurrencyCall(op, identity, code, data)) } :
            Handled(op, identity, r.c, [db |-> r.db, status |-> r.c.status])

\* POST /currencies/user/currencies
AssignCurrency == CurrencyRequest("assign", AssignmentData)

\* PUT /currencies/user/currencies/<code>
UpdateAssignment == CurrencyRequest("update", AssignmentData)

\* PUT /currencies/user/default
SetDefault == CurrencyRequest("set_default", {NoData})

\* DELETE /currencies/user/currencies/<code>
RemoveAssignment == CurrencyRequest("remove", {NoData})

NextCurrency ==
    \/ Login
    \/ UserRegister_post
    \/ UpdateCurrency
    \/ AssignCurrency
    \/ UpdateAssignment
    \/ SetDefault
    \/ RemoveAssignment

SpecCurrency == Init /\ [][NextCurrency]_vars

\* ------------------------------------------------------------------------
\* Currency requests of two workers interleaved at their statements
\* ------------------------------------------------------------------------
ConcAssignmentData == { [is_default |-> TRUE], [is_default |-> FALSE] }

StartCurrencyCall(p) ==
    /\ calls[p].pc \in {"idle", "done"}
    /\ \E identity \in tokens, code \in CurrencyCodes :
          \/ \E data \in ConcAssignmentData :
                calls' = [calls EXCEPT ![p] =
                            NewCurrencyCall("assign", identity, code, data)]
          \/ calls' = [calls EXCEPT ![p] =
                         NewCurrencyCall("update", identity, code, [is_default |-> TRUE])]
          \/ \E op \in {"set_default", "remove"} :
                calls' = [calls EXCEPT ![p] =
                            NewCurrencyCall(op, identity, code, NoData)]
    /\ UNCHANGED <<storeVars, role_table, last, expandVars>>

StepCurrencyCall(p) ==
    /\ calls[p].pc \notin {"idle", "done"}
    /\ \E r \in { UcStep(DB, calls[p]) } :
          /\ Commit(r.db)
          /\ calls' = [calls EXCEPT ![p] = r.c]
    /\ UNCHANGED <<role_table, last, expandVars>>

NextCurrencyConc ==
    \/ Login
    \/ \E p \in Procs : StartCurrencyCall(p)
    \/ \E p \in Procs : StepCurrencyCall(p)

SpecCurrencyConc == Init /\ [][NextCurrencyConc]_vars

\* ------------------------------------------------------------------------
\* C21, C28: algebra of the expansion
\* ------------------------------------------------------------------------
\* C21: expanding the set an expansion returned gives that set again, in
\* whatever order the set is iterated, and giving a pattern of the list a
\* second time does not change the result.
C21_ExpansionIsIdempotent ==
    [][ (expand_pc = "return" /\ expand_pc' \in {"again", "duplicate"})
            => expanded' = expanded ]_vars

\* a result that mixes expanded wildcards with an unknown literal has been
\* expanded a second time
C21_Witness ==
    /\ expand_pc = "again"
    /\ Len(permission_patterns) = 9
    /\ Perm("x", "y") \in expanded
    /\ Perm("payments", "view") \in expanded
    /\ Cardinality(expanded) = 9

\* C28: every permission of the known universe (8 resources x 4 actions) is
\* in get_role_permissions('Admin').
C28_AdminExpansionCoversUniverse ==
    (last.op = "get_role_permissions" /\ last.arg = "Admin")
        => all_permissions \subseteq expanded

\* ------------------------------------------------------------------------
\* C27: order of the tests of permission_required
\* ------------------------------------------------------------------------
\* C27: permission_required refuses an inactive account with 'Account is
\* inactive' for every permission, also when its role is named 'Admin': the
\* activation test comes before the Admin short-circuit and fn is not called.
C27_InactiveDeniedBeforeAdminShortCircuit ==
    (last.op = "permission_required" /\ GateUser # NoUser /\ ~GateUser.is_active)
        => /\ last.status = 403
           /\ last.arg.message = "Account is inactive"

\* a deactivated account whose role is named 'Admin' asked for a permission
C27_Witness ==
    /\ last.op = "permission_required"
    /\ GateUser # NoUser
    /\ ~GateUser.is_active
    /\ GateRole = "Admin"
    /\ last.status = 403
    /\ last.arg.message = "Account is inactive"

\* ------------------------------------------------------------------------
\* C24: role gates and the activation flag
\* ------------------------------------------------------------------------
\* C24: a request that carries the token of an account whose is_active is
\* false is rejected by role_required / admin_required, whatever role the
\* account holds.
C24_InactiveAccountFailsRoleGate ==
    (last.op = "role_required" /\ GateUser # NoUser /\ ~GateUser.is_active)
        => last.status = 403

\* ------------------------------------------------------------------------
\* C26: the subject id of the account a reconciliation returns
\* ------------------------------------------------------------------------
\* C26: when reconciliation succeeds for an assertion that carries a subject
\* id, the account it returns is linked to that subject id; an assertion
\* never logs in an account linked to a different subject id.
C26_ReturnedAccountIsLinkedToSubject ==
    (last.op = "google_auth" /\ last.status = 200 /\ ~Falsy(last.arg.google_id))
        => \E u \in users : /\ u.id = last.arg.user.id
                            /\ u.google_sso_id = last.arg.google_id

\* ------------------------------------------------------------------------
\* C29: role references
\* ------------------------------------------------------------------------
\* C29: after any sequence of role create / rename / delete and user create /
\* update / delete requests, every account's role_id is null or the id of an
\* existing role; the deletion of a role that an account holds is rejected
\* (400, or 403 by the gate or the name protection) and leaves roles and
\* users unchanged.
C29_RoleReferencesStayValid ==
    /\ [](\A u \in users : u.role_id = NoRole \/ \E r \in roles : r.id = u.role_id)
    /\ [][ (last'.op = "delete_role"
              /\ \E u \in users : u.role_id = last'.arg.id)
            => /\ last'.status \in {400, 403}
               /\ roles' = roles
               /\ users' = users ]_vars

\* the deletion of a role that is neither 'Admin' nor the default role was
\* refused because an account holds it
C29_Witness ==
    /\ last.op = "delete_role"
    /\ last.status = 400
    /\ \E r \in roles : r.id = last.arg.id /\ r.name = "Old"
    /\ \E u \in users : u.role_id = last.arg.id

\* ------------------------------------------------------------------------
\* C30: what the default role is worth
\* ------------------------------------------------------------------------
\* the account of the request is one the SSO callback created (it has a
\* subject id and no password) and still has the default role
SsoAccountWithDefaultRole ==
    /\ GateUser # NoUser
    /\ GateUser.google_sso_id # None
    /\ Falsy(GateUser.password_hash)
    /\ GateRole = DEFAULT_USER_ROLE

\* C30: an account created through SSO with the default role ('User', which
\* ROLE_PERMISSIONS does not list) is denied every permission by
\* permission_required and is rejected by admin_required, as long as its role
\* is the default role.
C30_DefaultRoleGrantsNothing ==
    /\ (last.op = "permission_required" /\ SsoAccountWithDefaultRole)
          => last.status = 403
    /\ (last.op = "role_required" /\ last.arg.roles = {"Admin"}
            /\ SsoAccountWithDefaultRole)
          => last.status = 403

\* an active account of the SSO callback, with the default role, asked for a
\* permission of the known universe and was told it lacks it
C30_Witness ==
    /\ last.op = "permission_required"
    /\ SsoAccountWithDefaultRole
    /\ GateUser.is_active
    /\ last.arg.permission = Perm("products", "view")
    /\ last.arg.message = "Missing required permission"

\* ------------------------------------------------------------------------
\* C22, C23: the default currency of a user
\* ------------------------------------------------------------------------
AssignmentsOf(user_id) == { uc \in user_currencies : uc.user_id = user_id }

DefaultsOf(user_id) == { uc \in AssignmentsOf(user_id) : uc.is_default }

\* C22: after any sequence of assign, update, set-default and remove
\* requests, every user with at least one currency assignment has exactly one
\* assignment with is_default = true.
C22_ExactlyOneDefault ==
    \A u \in users :
        AssignmentsOf(u.id) # {} => Cardinality(DefaultsOf(u.id)) = 1

\* C23: when requests of one user that make different currencies the default
\* interleave, the committed rows of that user still have at most one
\* assignment with is_default = true.
C23_AtMostOneDefault ==
    \A u \in users : Cardinality(DefaultsOf(u.id)) <= 1

====
